---- MODULE Spec2Model ----
(***************************************************************************)
(* Model of the WebSocket echo core of arnnvv/peeple-queue                 *)
(* (src/unnamed/part_001, second file: wsHandler, readFrame, sendFrame).   *)
(*                                                                         *)
(* One request is served by wsHandler: the handshake (header validation,   *)
(* 101 response, Hijack) and then the echo loop on the hijacked stream.    *)
(* The peer is the environment: it sends frames on the stream and may      *)
(* close it at any byte.  readFrame and sendFrame are also exercised       *)
(* directly on an in-memory pipe, in runs where no request is served.      *)
(*                                                                         *)
(* The event-stream server of src/main.go and of the first file of         *)
(* src/unnamed/part_001 is modelled next to it: sseHandler and broadcast   *)
(* as concurrent goroutines on the registry clients, its mutex and the     *)
(* listeners' channels (SpecSSE, SpecBroadcast), and authMiddleware in     *)
(* front of triggerHandler (SpecAuth).                                     *)
(***************************************************************************)
EXTENDS Integers, Sequences, FiniteSets, TLC

VARIABLES
    pc,         \* position of wsHandler: Negotiating, readFrame, sendFrame, Closed
    req,        \* the request's header values and the transport's capabilities
    resp,       \* the http.ResponseWriter: wroteHeader, status, header, body
    hijackCalls,\* number of calls of hijacker.Hijack()
    inbuf,      \* bytes sent by the peer and not yet read from conn
    peerClosed, \* the peer closed its side: reads past inbuf end the stream
    sent,       \* history: the frames the peer sent, as records
    ops,        \* history: the operations wsHandler performed on conn
    msg,        \* wsHandler's local msg, the payload to echo
    received,   \* history: the payloads readFrame returned to the driver
    written,    \* history: the byte strings conn.Write accepted
    lastRead,   \* history: outcome of the latest readFrame of the driver
    lastSend,   \* history: outcome of the latest sendFrame of the driver
    printed,    \* the lines wsHandler printed, by kind
    codec,      \* direct use of sendFrame/readFrame on a pipe
    hpc,        \* position of each sseHandler call
    ctxDone,    \* r.Context().Done() is closed, per sseHandler call
    clients,    \* the registry: the listeners whose channel is a key of clients
    chanq,      \* the buffer of each listener's messageChan
    closed,     \* number of close(messageChan) per listener
    writer,     \* the sseHandler call holding clientsMu.Lock(), or 0
    readers,    \* the broadcast calls holding clientsMu.RLock()
    bpc,        \* position of each broadcast call
    todo,       \* the listeners the range loop of each broadcast has yet to visit
    outcome,    \* per running broadcast: <<listener, buffered before, result>>
    sentOnClosed,\* history: a send on a closed channel happened
    hout,       \* the events each sseHandler call wrote to its response
    regs,       \* history: number of insertions into clients per listener
    auth        \* the request served by authMiddleware and its outcome

wsVars == <<pc, req, resp, hijackCalls, inbuf, peerClosed, sent, ops, msg,
            received, written, lastRead, lastSend, printed, codec>>
sseVars == <<hpc, ctxDone, clients, chanq, closed, writer, readers, bpc, todo,
             outcome, sentOnClosed, hout, regs>>
srvVars == <<sseVars, auth>>
vars == <<wsVars, srvVars>>

-----------------------------------------------------------------------------
(* Bounds of the model *)

\* the peer sends at most this many frames on one connection
MaxFrames == 2
\* short payloads have 0..MaxLen bytes
MaxLen == 1
\* the number of requests to /events, each served by one call of sseHandler
NumListeners == 2
\* the number of calls of broadcast
NumBroadcasts == 2

-----------------------------------------------------------------------------
(* Constants of the program *)

StatusBadRequest == 400
StatusInternalServerError == 500
StatusSwitchingProtocols == 101
\* header[0] of every outbound frame: FIN + text
FinText == 129
OpText == 1
\* largest length carried by the 7-bit field itself
ShortMax == 125
\* 7-bit length announcing a 16-bit extended length
Ext16 == 126
\* variant: no case matches the 7-bit length 127
Ext64_NoCase == 128
\* 7-bit length announcing a 64-bit extended length
Ext64 == 127
\* largest length the 16-bit extended form carries
MaxUint16 == 65535

-----------------------------------------------------------------------------
(* Bytes *)

RECURSIVE XorBits(_, _)
\* a ^ b on unsigned integers, bit by bit
XorBits(a, b) ==
    IF a = 0 THEN b
    ELSE IF b = 0 THEN a
    ELSE (((a % 2) + (b % 2)) % 2) + 2 * XorBits(a \div 2, b \div 2)

\* a ^ b on bytes, tabulated
XorTable == [a \in 0..255 |-> [b \in 0..255 |-> XorBits(a, b)]]

Xor(a, b) == XorTable[a][b]

\* binary.BigEndian.Uint16
Uint16(b) == b[1] * 256 + b[2]

\* variant: the length is written low byte first
PutUint16_LittleEndian(n) == << (n % 65536) % 256, (n % 65536) \div 256 >>

\* binary.BigEndian.PutUint16(lenBytes, uint16(n))
PutUint16(n) == << (n % 65536) \div 256, (n % 65536) % 256 >>

Drop(s, n) == SubSeq(s, n + 1, Len(s))

-----------------------------------------------------------------------------
(* io.ReadFull(conn, buf) with len(buf) = n, on a stream holding the bytes  *)
(* `buf`, ended after them iff `eof`.  "block": the bytes have not arrived  *)
(* and the stream is still open.  io.EOF iff no byte was read.              *)

\* variant: a read takes every byte that has arrived, as a buffered reader
\* made anew for each call would
ReadFull_Greedy(buf, n, eof) ==
    IF Len(buf) >= n
    THEN [st |-> "nil", data |-> SubSeq(buf, 1, n), rest |-> <<>>]
    ELSE IF ~eof
    THEN [st |-> "block", data |-> <<>>, rest |-> buf]
    ELSE IF Len(buf) = 0
    THEN [st |-> "EOF", data |-> <<>>, rest |-> <<>>]
    ELSE [st |-> "ErrUnexpectedEOF", data |-> buf, rest |-> <<>>]

ReadFull(buf, n, eof) ==
    IF Len(buf) >= n
    THEN [st |-> "nil", data |-> SubSeq(buf, 1, n), rest |-> Drop(buf, n)]
    ELSE IF ~eof
    THEN [st |-> "block", data |-> <<>>, rest |-> buf]
    ELSE IF Len(buf) = 0
    THEN [st |-> "EOF", data |-> <<>>, rest |-> <<>>]
    ELSE [st |-> "ErrUnexpectedEOF", data |-> buf, rest |-> <<>>]

\* a return "", err of readFrame at the given step, `rest` left on the stream
ReadFail(err, step, rest, total) ==
    [msg |-> <<>>, err |-> err, step |-> step, rest |-> rest,
     n |-> total - Len(rest)]

\* variant: the key index wraps at 3
Unmask_Mod3(payload, maskingKey) ==
    [i \in 1..Len(payload) |-> Xor(payload[i], maskingKey[((i - 1) % 3) + 1])]

\* payload[i] ^= maskingKey[i%4], i from 0
Unmask(payload, maskingKey) ==
    [i \in 1..Len(payload) |-> Xor(payload[i], maskingKey[((i - 1) % 4) + 1])]

\* variant: the final-fragment flag is not checked
IsFinalText_OpcodeOnly(fin, opcode) == opcode = OpText

\* the frames readFrame returns: not (opcode != 0x01 || fin != 1)
IsFinalText(fin, opcode) == ~(opcode # OpText \/ fin # 1)

\* variant: fin and opcode are checked right after the header
readFrame_EarlyTypeCheck(buf, eof) ==
    LET total == Len(buf)
        h == ReadFull(buf, 2, eof)
    IN  IF h.st # "nil" THEN ReadFail(h.st, "header", h.rest, total)
        ELSE
        LET fin == h.data[1] \div 128
            opcode == h.data[1] % 16
            mask == h.data[2] \div 128
            len7 == h.data[2] % 128
        IN  IF len7 = Ext64
            THEN ReadFail("large payloads not supported", "length", h.rest, total)
            ELSE IF ~IsFinalText(fin, opcode)
            THEN ReadFail("unsupported frame type", "type", h.rest, total)
            ELSE
            LET l == IF len7 = Ext16 THEN ReadFull(h.rest, 2, eof)
                     ELSE [st |-> "nil", data |-> <<>>, rest |-> h.rest]
            IN  IF l.st # "nil" THEN ReadFail(l.st, "length", l.rest, total)
                ELSE
                LET payloadLen == IF len7 = Ext16 THEN Uint16(l.data) ELSE len7
                    k == IF mask = 1 THEN ReadFull(l.rest, 4, eof)
                         ELSE [st |-> "nil", data |-> <<0, 0, 0, 0>>, rest |-> l.rest]
                IN  IF k.st # "nil" THEN ReadFail(k.st, "maskingKey", k.rest, total)
                    ELSE
                    LET p == ReadFull(k.rest, payloadLen, eof)
                    IN  IF p.st # "nil" THEN ReadFail(p.st, "payload", p.rest, total)
                        ELSE [msg |-> IF mask = 1 THEN Unmask(p.data, k.data)
                                      ELSE p.data,
                              err |-> "nil", step |-> "done",
                              rest |-> p.rest, n |-> total - Len(p.rest)]

readFrame(buf, eof) ==
    LET total == Len(buf)
        h == ReadFull(buf, 2, eof)
    IN  IF h.st # "nil" THEN ReadFail(h.st, "header", h.rest, total)
        ELSE
        LET fin == h.data[1] \div 128
            opcode == h.data[1] % 16
            mask == h.data[2] \div 128
            len7 == h.data[2] % 128
        IN  IF len7 = Ext64
            THEN ReadFail("large payloads not supported", "length", h.rest, total)
            ELSE
            LET l == IF len7 = Ext16 THEN ReadFull(h.rest, 2, eof)
                     ELSE [st |-> "nil", data |-> <<>>, rest |-> h.rest]
            IN  IF l.st # "nil" THEN ReadFail(l.st, "length", l.rest, total)
                ELSE
                LET payloadLen == IF len7 = Ext16 THEN Uint16(l.data) ELSE len7
                    k == IF mask = 1 THEN ReadFull(l.rest, 4, eof)
                         ELSE [st |-> "nil", data |-> <<0, 0, 0, 0>>, rest |-> l.rest]
                IN  IF k.st # "nil" THEN ReadFail(k.st, "maskingKey", k.rest, total)
                    ELSE
                    LET p == ReadFull(k.rest, payloadLen, eof)
                    IN  IF p.st # "nil" THEN ReadFail(p.st, "payload", p.rest, total)
                        ELSE
                        LET payload == IF mask = 1 THEN Unmask(p.data, k.data)
                                       ELSE p.data
                        IN  IF ~IsFinalText(fin, opcode)
                            THEN ReadFail("unsupported frame type", "type",
                                          p.rest, total)
                            ELSE [msg |-> payload, err |-> "nil", step |-> "done",
                                  rest |-> p.rest, n |-> total - Len(p.rest)]

\* variant: the short form sets the mask bit
sendFrame_SetsMask(message) ==
    LET payload == message
        header == <<FinText>>
    IN  IF Len(payload) <= ShortMax
        THEN [err |-> "nil", wire |-> header \o <<128 + Len(payload)>> \o payload]
        ELSE IF Len(payload) <= MaxUint16
        THEN [err |-> "nil",
              wire |-> header \o <<Ext16>> \o PutUint16(Len(payload)) \o payload]
        ELSE [err |-> "payload too large", wire |-> <<>>]

\* variant: the short form is taken up to 126 bytes
sendFrame_Short126(message) ==
    LET payload == message
        header == <<FinText>>
    IN  IF Len(payload) <= ShortMax + 1
        THEN [err |-> "nil", wire |-> header \o <<Len(payload)>> \o payload]
        ELSE IF Len(payload) <= MaxUint16
        THEN [err |-> "nil",
              wire |-> header \o <<Ext16>> \o PutUint16(Len(payload)) \o payload]
        ELSE [err |-> "payload too large", wire |-> <<>>]

\* variant: no 16-bit form, every length above 125 is refused
sendFrame_ShortOnly(message) ==
    LET payload == message
        header == <<FinText>>
    IN  IF Len(payload) <= ShortMax
        THEN [err |-> "nil", wire |-> header \o <<Len(payload)>> \o payload]
        ELSE [err |-> "payload too large", wire |-> <<>>]

\* variant: no ceiling, every length above 125 takes the 16-bit form
sendFrame_NoCeiling(message) ==
    LET payload == message
        header == <<FinText>>
    IN  IF Len(payload) <= ShortMax
        THEN [err |-> "nil", wire |-> header \o <<Len(payload)>> \o payload]
        ELSE [err |-> "nil",
              wire |-> header \o <<Ext16>> \o PutUint16(Len(payload)) \o payload]

\* sendFrame up to conn.Write: the bytes handed to Write, or the error
sendFrame(message) ==
    LET payload == message
        header == <<FinText>>
    IN  IF Len(payload) <= ShortMax
        THEN [err |-> "nil", wire |-> header \o <<Len(payload)>> \o payload]
        ELSE IF Len(payload) <= MaxUint16
        THEN [err |-> "nil",
              wire |-> header \o <<Ext16>> \o PutUint16(Len(payload)) \o payload]
        ELSE [err |-> "payload too large", wire |-> <<>>]

-----------------------------------------------------------------------------
(* The http.ResponseWriter of the hosting server *)

\* w.Header().Set(k, v)
HeaderSet(h, k, v) == {p \in h : p[1] # k} \cup {<<k, v>>}

\* w.WriteHeader(code): the first status written stands, a later call is
\* superfluous and ignored (101 is written as a final status)
WriteHeader(w, code) ==
    IF w.wroteHeader THEN w
    ELSE [w EXCEPT !.wroteHeader = TRUE, !.status = code]

\* http.Error(w, error, code)
HttpError(w, error, code) ==
    LET h == HeaderSet(HeaderSet(w.header, "Content-Type",
                                 "text/plain; charset=utf-8"),
                       "X-Content-Type-Options", "nosniff")
        w1 == WriteHeader([w EXCEPT !.header = h], code)
    IN  [w1 EXCEPT !.body = Append(@, error)]

\* base64(sha1(key + GUID)); the digest is left uninterpreted
AcceptToken(key) == <<"base64-sha1", key, "258EAFA5-E914-47DA-95CA-C5AB0DC85B11">>

-----------------------------------------------------------------------------
(* The peer: frames a client can put on the stream *)

\* masking key used by the client
Key == <<55, 250, 33, 61>>

\* the payload of n bytes the client sends
Payload(n) == [i \in 1..n |-> (65 + 59 * i) % 256]

\* client-side masking of a payload
Mask(p, key) == [i \in 1..Len(p) |-> Xor(p[i], key[((i - 1) % 4) + 1])]

\* payload lengths by length form
ShortLens == (0..MaxLen) \cup {125}
Ext16Lens == {MaxLen, 126}
Ext64Lens == {MaxLen}

FrameTypes == {<<1, 1>>, <<0, 1>>, <<1, 8>>, <<0, 0>>}

Frames ==
    { [fin |-> t[1], opcode |-> t[2], mask |-> m, form |-> fl[1],
       len |-> fl[2]] :
        t \in FrameTypes, m \in {0, 1},
        fl \in ({"short"} \X ShortLens) \cup ({"ext16"} \X Ext16Lens)
               \cup ({"ext64"} \X Ext64Lens) }

\* bytes of the frame before the masking key
FrameHead(f) ==
    LET n == f.len
        b0 == f.fin * 128 + f.opcode
    IN  CASE f.form = "short" -> <<b0, f.mask * 128 + n>>
          [] f.form = "ext16" -> <<b0, f.mask * 128 + 126, n \div 256, n % 256>>
          [] f.form = "ext64" -> <<b0, f.mask * 128 + 127,
                                   0, 0, 0, 0, 0, 0, n \div 256, n % 256>>

\* the frame on the wire, as the client writes it
ClientWire(f) ==
    FrameHead(f) \o (IF f.mask = 1 THEN Key \o Mask(Payload(f.len), Key)
                     ELSE Payload(f.len))

\* where a client may stop inside a frame: any byte of the head and of the
\* key, the first bytes of the payload, and before the last byte
CutPoints(f) ==
    LET w == Len(ClientWire(f))
        hd == w - f.len
    IN  {n \in 1..(w - 1) : n <= hd + MaxLen \/ n = w - 1}

\* the wire bytes of every frame, and every way to cut one
Wires == [f \in Frames |-> ClientWire(f)]
Cuts == UNION {{<<f, n>> : n \in CutPoints(f)} : f \in Frames}

\* a frame the decoder accepts
Accepted(f) == f.fin = 1 /\ f.opcode = 1 /\ f.form # "ext64"

-----------------------------------------------------------------------------
(* Requests and transports *)

Upgrades == {"websocket", "WebSocket", ""}
Connections == {"Upgrade", "keep-alive"}
Versions == {"13", "8", ""}
Nonces == {"dGhlIHNhbXBsZSBub25jZQ==", ""}

Requests ==
    [upgrade : Upgrades, connection : Connections, version : Versions,
     key : Nonces,
     isHijacker : BOOLEAN,   \* w.(http.Hijacker) succeeds
     hijackOk : BOOLEAN]     \* Hijack() returns no error

NoRequest == [upgrade |-> "-", connection |-> "-", version |-> "-",
              key |-> "-", isHijacker |-> FALSE, hijackOk |-> FALSE]

NoRead == [err |-> "none", step |-> "none", n |-> 0]
NoSend == [err |-> "none", wire |-> <<>>]
NoCodec == [pc |-> "idle", payload |-> <<>>, err |-> "none", wire |-> <<>>,
            back |-> [msg |-> <<>>, err |-> "none", n |-> 0],
            echo |-> "none"]

\* payload lengths of the direct calls of sendFrame
UnitLens == {0, MaxLen, 125, 126, 127, 65535, 65536}

\* the calls of sseHandler and of broadcast
Listeners == 1..NumListeners
Broadcasts == 1..NumBroadcasts
\* no request has reached authMiddleware
NoAuth == [pc |-> "idle"]

Init ==
    /\ pc = "Negotiating"
    /\ req = NoRequest
    /\ resp = [wroteHeader |-> FALSE, status |-> 0, header |-> {}, body |-> <<>>]
    /\ hijackCalls = 0
    /\ inbuf = <<>>
    /\ peerClosed = FALSE
    /\ sent = <<>>
    /\ ops = <<>>
    /\ msg = <<>>
    /\ received = <<>>
    /\ written = <<>>
    /\ lastRead = NoRead
    /\ lastSend = NoSend
    /\ printed = <<>>
    /\ codec = NoCodec
    /\ hpc = [h \in Listeners |-> "idle"]
    /\ ctxDone = [h \in Listeners |-> FALSE]
    /\ clients = {}
    /\ chanq = [h \in Listeners |-> <<>>]
    /\ closed = [h \in Listeners |-> 0]
    /\ writer = 0
    /\ readers = {}
    /\ bpc = [b \in Broadcasts |-> "idle"]
    /\ todo = [b \in Broadcasts |-> {}]
    /\ outcome = [b \in Broadcasts |-> {}]
    /\ sentOnClosed = FALSE
    /\ hout = [h \in Listeners |-> <<>>]
    /\ regs = [h \in Listeners |-> 0]
    /\ auth = NoAuth

Open == pc \in {"readFrame", "sendFrame"}

-----------------------------------------------------------------------------
(* wsHandler *)

\* variant: any version that is present passes
IsVersion13_AnyPresent(r) == r.version # ""

\* the checks of the request's headers
IsUpgrade(r) == ~(r.upgrade # "websocket" \/ r.connection # "Upgrade")
IsVersion13(r) == ~(r.version # "13")

\* wsHandler from its entry to the start of the loop, for the request r
Handshake(r) ==
    /\ pc = "Negotiating"
    /\ codec.pc = "idle"
    /\ req' = r
    /\ IF ~IsUpgrade(r)
       THEN /\ resp' = HttpError(resp, "Not a WebSocket request", StatusBadRequest)
            /\ pc' = "Closed"
            /\ UNCHANGED <<hijackCalls, ops>>
       ELSE IF ~IsVersion13(r)
       THEN /\ resp' = HttpError(resp, "Unsupported WebSocket version",
                                 StatusBadRequest)
            /\ pc' = "Closed"
            /\ UNCHANGED <<hijackCalls, ops>>
       ELSE
       LET h == HeaderSet(HeaderSet(HeaderSet(resp.header,
                    "Upgrade", "websocket"), "Connection", "Upgrade"),
                    "Sec-WebSocket-Accept", AcceptToken(r.key))
           w == WriteHeader([resp EXCEPT !.header = h], StatusSwitchingProtocols)
       IN  IF ~r.isHijacker
           THEN /\ resp' = HttpError(w, "Hijacking not supported",
                                     StatusInternalServerError)
                /\ pc' = "Closed"
                /\ UNCHANGED <<hijackCalls, ops>>
           ELSE IF ~r.hijackOk
           THEN /\ hijackCalls' = hijackCalls + 1
                /\ resp' = HttpError(w, "hijack error", StatusInternalServerError)
                /\ pc' = "Closed"
                /\ UNCHANGED ops
           ELSE /\ hijackCalls' = hijackCalls + 1
                /\ resp' = w
                /\ pc' = "readFrame"
                /\ ops' = Append(ops, [op |-> "hijack", err |-> "nil"])
    /\ UNCHANGED <<inbuf, peerClosed, sent, msg, received, written, lastRead,
                   lastSend, printed, codec>>
    /\ UNCHANGED srvVars

wsHandler == \E r \in Requests : Handshake(r)

\* variant: the stream is not closed on return
Close_Leak(o) == o

\* the deferred conn.Close()
Close(o) == Append(o, [op |-> "close", err |-> "nil"])

\* variant: a decoded frame is not echoed before the next read
AfterRead_NoEcho(err) == IF err # "nil" THEN "Closed" ELSE "readFrame"

\* variant: the loop goes on after a failed write
AfterSend_Retry(err) == "readFrame"

\* where the loop goes after readFrame and after sendFrame returned err
AfterRead(err) == IF err # "nil" THEN "Closed" ELSE "sendFrame"
AfterSend(err) == IF err # "nil" THEN "Closed" ELSE "readFrame"

\* err != io.EOF: the read error is printed
IsReported(err) == err # "EOF"

\* one turn of the loop up to the echo: readFrame, and the return on its error
DriverRead ==
    /\ pc = "readFrame"
    /\ LET r == readFrame(inbuf, peerClosed)
       IN  /\ r.err # "block"
           /\ inbuf' = r.rest
           /\ lastRead' = [err |-> r.err, step |-> r.step, n |-> r.n]
           /\ pc' = AfterRead(r.err)
           /\ IF r.err = "nil"
              THEN /\ msg' = r.msg
                   /\ received' = Append(received, r.msg)
                   /\ printed' = Append(printed, "Received")
              ELSE /\ printed' = IF IsReported(r.err)
                                 THEN Append(printed, "Read error")
                                 ELSE printed
                   /\ UNCHANGED <<msg, received>>
           /\ ops' = LET o == Append(ops, [op |-> "read", err |-> r.err])
                     IN  IF pc' = "Closed" THEN Close(o) ELSE o
    /\ UNCHANGED <<req, resp, hijackCalls, peerClosed, sent, written, lastSend,
                   codec>>
    /\ UNCHANGED srvVars

\* the echo: sendFrame(conn, msg) with conn.Write succeeding or not
DriverSend(writeOk) ==
    /\ pc = "sendFrame"
    /\ LET s == sendFrame(msg)
           \* err of sendFrame: its own, or that of conn.Write
           err == IF s.err # "nil" THEN s.err
                  ELSE IF writeOk THEN "nil" ELSE "write failed"
           o == IF s.err # "nil" THEN ops
                ELSE Append(ops, [op |-> "write", err |-> err])
       IN  /\ lastSend' = [err |-> err, wire |-> s.wire]
           /\ pc' = AfterSend(err)
           /\ written' = IF err = "nil" THEN Append(written, s.wire)
                         ELSE written
           /\ printed' = IF err # "nil" THEN Append(printed, "Write error")
                         ELSE printed
           /\ ops' = IF pc' = "Closed" THEN Close(o) ELSE o
    /\ UNCHANGED <<req, resp, hijackCalls, inbuf, peerClosed, sent, msg,
                   received, lastRead, codec>>
    /\ UNCHANGED srvVars

Echo == \E writeOk \in BOOLEAN : DriverSend(writeOk)

-----------------------------------------------------------------------------
(* The peer *)

\* every frame sent so far is whole and will be accepted: what follows a
\* rejected or cut frame is never read
AllAccepted == \A i \in 1..Len(sent) : Accepted(sent[i]) /\ sent[i].cut = 0

PeerSend ==
    /\ Open
    /\ ~peerClosed
    /\ Len(sent) < MaxFrames
    /\ AllAccepted
    /\ \E f \in Frames :
        /\ inbuf' = inbuf \o Wires[f]
        /\ sent' = Append(sent, [fin |-> f.fin, opcode |-> f.opcode,
                                 mask |-> f.mask, form |-> f.form,
                                 len |-> f.len, cut |-> 0])
    /\ UNCHANGED <<pc, req, resp, hijackCalls, peerClosed, ops, msg, received,
                   written, lastRead, lastSend, printed, codec>>
    /\ UNCHANGED srvVars

\* the peer sends the first n bytes of a frame and closes the stream
PeerAbort ==
    /\ Open
    /\ ~peerClosed
    /\ Len(sent) < MaxFrames
    /\ AllAccepted
    /\ \E c \in Cuts :
        LET f == c[1]
            n == c[2]
        IN  /\ inbuf' = inbuf \o SubSeq(Wires[f], 1, n)
            /\ sent' = Append(sent, [fin |-> f.fin, opcode |-> f.opcode,
                                     mask |-> f.mask, form |-> f.form,
                                     len |-> f.len, cut |-> n])
    /\ peerClosed' = TRUE
    /\ UNCHANGED <<pc, req, resp, hijackCalls, ops, msg, received,
                   written, lastRead, lastSend, printed, codec>>
    /\ UNCHANGED srvVars

\* the peer closes the stream between frames
PeerClose ==
    /\ Open
    /\ ~peerClosed
    /\ peerClosed' = TRUE
    /\ UNCHANGED <<pc, req, resp, hijackCalls, inbuf, sent, ops, msg, received,
                   written, lastRead, lastSend, printed, codec>>
    /\ UNCHANGED srvVars

-----------------------------------------------------------------------------
(* sendFrame and readFrame called directly on a pipe *)

UnitSendFrame ==
    /\ pc = "Negotiating"
    /\ codec.pc = "idle"
    /\ \E n \in UnitLens :
        LET s == sendFrame(Payload(n))
        IN  codec' = [codec EXCEPT !.pc = "sent", !.payload = Payload(n),
                                   !.err = s.err, !.wire = s.wire]
    /\ UNCHANGED <<pc, req, resp, hijackCalls, inbuf, peerClosed, sent, ops,
                   msg, received, written, lastRead, lastSend, printed>>
    /\ UNCHANGED srvVars

UnitReadFrame ==
    /\ codec.pc = "sent"
    /\ codec.err = "nil"
    /\ LET r == readFrame(codec.wire, TRUE)
       IN  codec' = [codec EXCEPT !.pc = "read",
                        !.back = [msg |-> r.msg, err |-> r.err, n |-> r.n]]
    /\ UNCHANGED <<pc, req, resp, hijackCalls, inbuf, peerClosed, sent, ops,
                   msg, received, written, lastRead, lastSend, printed>>
    /\ UNCHANGED srvVars

\* the payload readFrame returned is handed to sendFrame, as the loop does
UnitEcho ==
    /\ codec.pc = "read"
    /\ codec.back.err = "nil"
    /\ codec' = [codec EXCEPT !.pc = "echoed",
                              !.echo = sendFrame(codec.back.msg).err]
    /\ UNCHANGED <<pc, req, resp, hijackCalls, inbuf, peerClosed, sent, ops,
                   msg, received, written, lastRead, lastSend, printed>>
    /\ UNCHANGED srvVars

Next ==
    \/ wsHandler
    \/ DriverRead
    \/ Echo
    \/ PeerSend
    \/ PeerAbort
    \/ PeerClose
    \/ UnitSendFrame
    \/ UnitReadFrame
    \/ UnitEcho

Spec == Init /\ [][Next]_vars

-----------------------------------------------------------------------------
(* The event stream: sseHandler and broadcast (src/main.go:41-89; the same  *)
(* code, with a buffer of 10, log lines and a first event of its own        *)
(* ({"status":"connected"}), is Server.sseHandler and                       *)
(* Server.broadcast of src/unnamed/part_001:118-172).  Every call of        *)
(* sseHandler and of broadcast runs in a goroutine of its own; one action   *)
(* is one statement that touches clients, clientsMu or a channel.           *)

\* make(chan []byte, 1)
ChanCap == 1

\* json.Marshal(map[string]any{"number": 1}): every broadcast carries the
\* same bytes
Msg(b) == "number"

\* the event sseHandler writes before its loop: the same bytes again
FirstEvent == "number"

\* clientsMu.Lock() and clientsMu.RLock() return when the mutex allows it
Lockable == writer = 0 /\ readers = {}
RLockable == writer = 0

\* variant: broadcast does not take the read lock
RLock_None(rs, b) == rs

\* the read holders after clientsMu.RLock() and after clientsMu.RUnlock()
RLock(rs, b) == rs \cup {b}
RUnlock(rs, b) == rs \ {b}

\* variant: the deferred function leaves the channel in the registry
Delete_Keep(cs, h) == cs

\* clients[messageChan] = true and delete(clients, messageChan)
Insert(cs, h) == cs \cup {h}
Delete(cs, h) == cs \ {h}

\* select { case client <- msg: default: } on a channel that is open
TrySend(q, m) ==
    IF Len(q) < ChanCap
    THEN [q |-> Append(q, m), res |-> "delivered"]
    ELSE [q |-> q, res |-> "dropped"]

\* variant: the loop ends at the first listener whose buffer is full
Rest_StopOnFull(ts, c, res) == IF res = "dropped" THEN {} ELSE ts \ {c}

\* the listeners the range loop has yet to visit after visiting c
Rest(ts, c, res) == ts \ {c}

\* the headers, the Flusher assertion and make(chan []byte, 1); the calls
\* of sseHandler are numbered in the order in which they start
SseStart(h, isFlusher) ==
    /\ hpc[h] = "idle"
    /\ \A g \in Listeners : g < h => hpc[g] # "idle"
    /\ hpc' = [hpc EXCEPT ![h] = IF isFlusher THEN "Lock" ELSE "refused"]
    /\ UNCHANGED <<ctxDone, clients, chanq, closed, writer, readers, bpc, todo,
                   outcome, sentOnClosed, hout, regs>>
    /\ UNCHANGED <<wsVars, auth>>

\* clientsMu.Lock() before the registration
SseLock(h) ==
    /\ hpc[h] = "Lock"
    /\ Lockable
    /\ writer' = h
    /\ hpc' = [hpc EXCEPT ![h] = "insert"]
    /\ UNCHANGED <<ctxDone, clients, chanq, closed, readers, bpc, todo,
                   outcome, sentOnClosed, hout, regs>>
    /\ UNCHANGED <<wsVars, auth>>

\* clients[messageChan] = true; clientsMu.Unlock()
SseRegister(h) ==
    /\ hpc[h] = "insert"
    /\ clients' = Insert(clients, h)
    /\ regs' = [regs EXCEPT ![h] = @ + 1]
    /\ writer' = 0
    /\ hpc' = [hpc EXCEPT ![h] = "init"]
    /\ UNCHANGED <<ctxDone, chanq, closed, readers, bpc, todo,
                   outcome, sentOnClosed, hout>>
    /\ UNCHANGED <<wsVars, auth>>

\* the first event is written and flushed, the cleanup is deferred
SseInit(h) ==
    /\ hpc[h] = "init"
    /\ hout' = [hout EXCEPT ![h] = Append(@, FirstEvent)]
    /\ hpc' = [hpc EXCEPT ![h] = "select"]
    /\ UNCHANGED <<ctxDone, clients, chanq, closed, writer, readers, bpc, todo,
                   outcome, sentOnClosed, regs>>
    /\ UNCHANGED <<wsVars, auth>>

\* case msg := <-messageChan: the message is written and flushed
SseRecv(h) ==
    /\ hpc[h] = "select"
    /\ chanq[h] # <<>>
    /\ hout' = [hout EXCEPT ![h] = Append(@, Head(chanq[h]))]
    /\ chanq' = [chanq EXCEPT ![h] = Tail(@)]
    /\ UNCHANGED <<hpc, ctxDone, clients, closed, writer, readers, bpc, todo,
                   outcome, sentOnClosed, regs>>
    /\ UNCHANGED <<wsVars, auth>>

\* case <-r.Context().Done(): return, which runs the deferred function
SseDone(h) ==
    /\ hpc[h] = "select"
    /\ ctxDone[h]
    /\ hpc' = [hpc EXCEPT ![h] = "deferLock"]
    /\ UNCHANGED <<ctxDone, clients, chanq, closed, writer, readers, bpc, todo,
                   outcome, sentOnClosed, hout, regs>>
    /\ UNCHANGED <<wsVars, auth>>

\* clientsMu.Lock() of the deferred function
SseDeferLock(h) ==
    /\ hpc[h] = "deferLock"
    /\ Lockable
    /\ writer' = h
    /\ hpc' = [hpc EXCEPT ![h] = "delete"]
    /\ UNCHANGED <<ctxDone, clients, chanq, closed, readers, bpc, todo,
                   outcome, sentOnClosed, hout, regs>>
    /\ UNCHANGED <<wsVars, auth>>

\* delete(clients, messageChan); clientsMu.Unlock()
SseDelete(h) ==
    /\ hpc[h] = "delete"
    /\ clients' = Delete(clients, h)
    /\ writer' = 0
    /\ hpc' = [hpc EXCEPT ![h] = "close"]
    /\ UNCHANGED <<ctxDone, chanq, closed, readers, bpc, todo,
                   outcome, sentOnClosed, hout, regs>>
    /\ UNCHANGED <<wsVars, auth>>

\* close(messageChan), and sseHandler has returned
SseClose(h) ==
    /\ hpc[h] = "close"
    /\ closed' = [closed EXCEPT ![h] = @ + 1]
    /\ hpc' = [hpc EXCEPT ![h] = "returned"]
    /\ UNCHANGED <<ctxDone, clients, chanq, writer, readers, bpc, todo,
                   outcome, sentOnClosed, hout, regs>>
    /\ UNCHANGED <<wsVars, auth>>

\* the steps of one call of sseHandler after its entry
sseHandler(h) ==
    \/ SseLock(h)
    \/ SseRegister(h)
    \/ SseInit(h)
    \/ SseDone(h)
    \/ SseDeferLock(h)
    \/ SseDelete(h)
    \/ SseClose(h)

\* the listener goes away: the server cancels the context of its request.
\* sseHandler reads the context in its select only, so a cancellation before
\* that is seen there
CtxCancel(h) ==
    /\ hpc[h] = "select"
    /\ ~ctxDone[h]
    /\ ctxDone' = [ctxDone EXCEPT ![h] = TRUE]
    /\ UNCHANGED <<hpc, clients, chanq, closed, writer, readers, bpc, todo,
                   outcome, sentOnClosed, hout, regs>>
    /\ UNCHANGED <<wsVars, auth>>

\* clientsMu.RLock(); the range loop starts on the keys of clients; the
\* calls of broadcast are numbered in the order in which they get the lock
BroadcastRLock(b) ==
    /\ bpc[b] = "idle"
    /\ \A a \in Broadcasts : a < b => bpc[a] # "idle"
    /\ RLockable
    /\ readers' = RLock(readers, b)
    /\ todo' = [todo EXCEPT ![b] = clients]
    /\ bpc' = [bpc EXCEPT ![b] = "range"]
    /\ UNCHANGED <<hpc, ctxDone, clients, chanq, closed, writer,
                   outcome, sentOnClosed, hout, regs>>
    /\ UNCHANGED <<wsVars, auth>>

\* one turn of the range loop, on the listener c; a send on a closed channel
\* panics, which ends the loop
BroadcastSend(b, c) ==
    /\ bpc[b] = "range"
    /\ c \in todo[b]
    /\ IF closed[c] > 0
       THEN /\ sentOnClosed' = TRUE
            /\ todo' = [todo EXCEPT ![b] = {}]
            /\ outcome' = [outcome EXCEPT
                               ![b] = @ \cup {<<c, Len(chanq[c]), "panic">>}]
            /\ UNCHANGED chanq
       ELSE LET s == TrySend(chanq[c], Msg(b))
            IN  /\ chanq' = [chanq EXCEPT ![c] = s.q]
                /\ todo' = [todo EXCEPT ![b] = Rest(@, c, s.res)]
                /\ outcome' = [outcome EXCEPT
                                   ![b] = @ \cup {<<c, Len(chanq[c]), s.res>>}]
                /\ UNCHANGED sentOnClosed
    /\ UNCHANGED <<hpc, ctxDone, clients, closed, writer, readers, bpc,
                   hout, regs>>
    /\ UNCHANGED <<wsVars, auth>>

\* the loop is over: the deferred clientsMu.RUnlock(); after a panic of the
\* send the lock is released too and the panic goes on to the caller
BroadcastRUnlock(b) ==
    /\ bpc[b] = "range"
    /\ todo[b] = {}
    /\ readers' = RUnlock(readers, b)
    /\ outcome' = [outcome EXCEPT ![b] = {}]
    /\ bpc' = [bpc EXCEPT ![b] = IF \E o \in outcome[b] : o[3] = "panic"
                                 THEN "panicked" ELSE "done"]
    /\ UNCHANGED <<hpc, ctxDone, clients, chanq, closed, writer, todo,
                   sentOnClosed, hout, regs>>
    /\ UNCHANGED <<wsVars, auth>>

\* the steps of one call of broadcast after it has the read lock
broadcast(b) ==
    \/ \E c \in Listeners : BroadcastSend(b, c)
    \/ BroadcastRUnlock(b)

NextSSE ==
    \/ \E h \in Listeners : \E isFlusher \in BOOLEAN : SseStart(h, isFlusher)
    \/ \E h \in Listeners : sseHandler(h)
    \/ \E h \in Listeners : SseRecv(h)
    \/ \E h \in Listeners : CtxCancel(h)
    \/ \E b \in Broadcasts : BroadcastRLock(b)
    \/ \E b \in Broadcasts : broadcast(b)

\* every goroutine that can take a step takes one: a handler goes on after
\* its context is done, a broadcast goes on once it was called
SpecSSE ==
    /\ Init
    /\ [][NextSSE]_vars
    /\ \A h \in Listeners : /\ WF_vars(SseLock(h))
                            /\ WF_vars(SseRegister(h))
                            /\ WF_vars(SseInit(h))
                            /\ WF_vars(SseDone(h))
                            /\ WF_vars(SseDeferLock(h))
                            /\ WF_vars(SseDelete(h))
                            /\ WF_vars(SseClose(h))
    /\ \A b \in Broadcasts : WF_vars(broadcast(b))

\* only the goroutine of broadcast is scheduled for sure: the listeners may
\* stall at any statement and never drain their channel
SpecBroadcast ==
    /\ Init
    /\ [][NextSSE]_vars
    /\ \A b \in Broadcasts : WF_vars(broadcast(b))

-----------------------------------------------------------------------------
(* The gate of /trigger: authMiddleware in its three versions               *)
(* (src/main.go:91-156, src/main.go:250-322, src/unnamed/part_001:174-225)  *)
(* and triggerHandler, the handler it wraps.                                *)
(*                                                                          *)
(* The Authorization header is kept as the list of its fields between       *)
(* single spaces, which is what strings.Split(authHeader, " ") returns: the *)
(* empty header is <<"">>, "Bearer  x" is <<"Bearer", "", "x">>.  A token   *)
(* string stands for the JWT it encodes; the row is what the store holds in *)
(* verification_status for the user of the token.                           *)

StatusOK == 200
StatusUnauthorized == 401
StatusConflict == 409

\* strings.ToLower on the words that occur as first field
ToLower(w) ==
    CASE w \in {"Bearer", "BEARER", "bearer"} -> "bearer"
      [] w = "Basic" -> "basic"
      [] OTHER -> w

\* the JWT a token string encodes: whether it has three well-formed
\* segments, the key of its signature, its expiry and its userId claim
Jwt(tokenString) ==
    CASE tokenString = "good" ->
            [wellFormed |-> TRUE, key |-> "k1", expired |-> FALSE, userId |-> 7]
      [] tokenString = "forged" ->
            [wellFormed |-> TRUE, key |-> "k2", expired |-> FALSE, userId |-> 7]
      [] tokenString = "keyless" ->
            [wellFormed |-> TRUE, key |-> "", expired |-> FALSE, userId |-> 7]
      [] tokenString = "expired" ->
            [wellFormed |-> TRUE, key |-> "k1", expired |-> TRUE, userId |-> 7]
      [] tokenString = "anon" ->
            [wellFormed |-> TRUE, key |-> "k1", expired |-> FALSE, userId |-> 0]
      [] OTHER ->
            [wellFormed |-> FALSE, key |-> "", expired |-> FALSE, userId |-> 0]

\* jwt.ParseWithClaims(tokenString, claims, keyfunc) with keyfunc returning
\* secret: token.Valid is set only when err is nil
ParseWithClaims(tokenString, secret) ==
    LET t == Jwt(tokenString)
    IN  IF ~t.wellFormed
        THEN [err |-> "ErrTokenMalformed", valid |-> FALSE, userId |-> 0]
        ELSE IF t.key # secret
        THEN [err |-> "ErrTokenSignatureInvalid", valid |-> FALSE,
              userId |-> t.userId]
        ELSE IF t.expired
        THEN [err |-> "ErrTokenExpired", valid |-> FALSE, userId |-> t.userId]
        ELSE [err |-> "nil", valid |-> TRUE, userId |-> t.userId]

\* QueryRow(...).Scan(&verificationStatus) into a bool: the column value is
\* converted as strconv.ParseBool does
ScanBool(row) ==
    CASE row = "norows" -> [err |-> "ErrNoRows", value |-> FALSE]
      [] row = "dberror" -> [err |-> "db", value |-> FALSE]
      [] row \in {"true", "t"} -> [err |-> "nil", value |-> TRUE]
      [] row \in {"false", "f"} -> [err |-> "nil", value |-> FALSE]
      [] OTHER -> [err |-> "convert", value |-> FALSE]

\* QueryRow(...).Scan(&verificationStatus) into a string
ScanString(row) ==
    CASE row = "norows" -> [err |-> "ErrNoRows", value |-> ""]
      [] row = "dberror" -> [err |-> "db", value |-> ""]
      [] OTHER -> [err |-> "nil", value |-> row]

\* variant: any first field passes
HasBearerForm_AnyScheme(parts) == ~(Len(parts) # 2)

\* the negation of len(parts) != 2 || strings.ToLower(parts[0]) != "bearer"
HasBearerForm(parts) == ~(Len(parts) # 2 \/ ToLower(parts[1]) # "bearer")

\* the ways the gate ends: http.Error with a status, a return that wrote
\* nothing, a panic, and the call of next
Deny(status) == [status |-> status, next |-> FALSE, end |-> "error"]
Silent == [status |-> 0, next |-> FALSE, end |-> "return"]
Panic == [status |-> 0, next |-> FALSE, end |-> "panic"]
Admit == [status |-> 0, next |-> TRUE, end |-> "next"]

\* the database/sql drivers each version of src/main.go registers by its
\* imports: the first one imports none, the second one lib/pq
Drivers1 == {}
Drivers2 == {"postgres"}

\* sql.Open(driverName, connStr) returns an error for a driver that is not
\* registered; for a registered one the driver decides
SqlOpen(drivers, driverName, openOk) == driverName \in drivers /\ openOk

\* src/main.go:91-156: sql.Open("postgres", ...) fails in every run of this
\* version, so a request with a valid token ends in the panic of line 132
authMiddleware1(r) ==
    IF r.header = <<"">> THEN Deny(StatusUnauthorized)
    ELSE IF ~HasBearerForm(r.header) THEN Deny(StatusUnauthorized)
    ELSE IF r.secret = "" THEN Silent
    ELSE LET t == ParseWithClaims(r.header[2], r.secret)
         IN  IF t.err # "nil" THEN Silent
             ELSE IF ~t.valid THEN Silent
             ELSE IF ~SqlOpen(Drivers1, "postgres", r.openOk) THEN Panic
             ELSE LET s == ScanString(r.row)
                  IN  IF s.err # "nil"
                      THEN IF s.err = "ErrNoRows"
                           THEN Deny(StatusUnauthorized)
                           ELSE Deny(StatusInternalServerError)
                      ELSE IF s.value = "false" \/ s.value = "'false'"
                           THEN Admit
                           ELSE Deny(StatusConflict)

\* src/main.go:250-322
authMiddleware2(r) ==
    IF r.header = <<"">> THEN Deny(StatusUnauthorized)
    ELSE IF ~HasBearerForm(r.header) THEN Deny(StatusUnauthorized)
    ELSE IF r.secret = "" THEN Deny(StatusInternalServerError)
    ELSE LET t == ParseWithClaims(r.header[2], r.secret)
         IN  IF t.err # "nil" THEN Deny(StatusUnauthorized)
             ELSE IF ~t.valid THEN Deny(StatusUnauthorized)
             ELSE IF t.userId = 0 THEN Deny(StatusUnauthorized)
             ELSE IF ~SqlOpen(Drivers2, "postgres", r.openOk)
                  THEN Deny(StatusInternalServerError)
             ELSE LET s == ScanBool(r.row)
                  IN  IF s.err # "nil"
                      THEN IF s.err = "ErrNoRows"
                           THEN Deny(StatusUnauthorized)
                           ELSE Deny(StatusInternalServerError)
                      ELSE IF s.value THEN Deny(StatusConflict)
                           ELSE Admit

\* src/unnamed/part_001:174-225: the secret and the database handle come from
\* the Server, so there is no check of the secret and no sql.Open
authMiddleware(r) ==
    IF r.header = <<"">> THEN Deny(StatusUnauthorized)
    ELSE IF ~HasBearerForm(r.header) THEN Deny(StatusUnauthorized)
    ELSE LET t == ParseWithClaims(r.header[2], r.secret)
         IN  IF t.err # "nil" \/ ~t.valid THEN Deny(StatusUnauthorized)
             ELSE IF t.userId = 0 THEN Deny(StatusUnauthorized)
             ELSE LET s == ScanBool(r.row)
                  IN  IF s.err # "nil"
                      THEN IF s.err = "ErrNoRows"
                           THEN Deny(StatusUnauthorized)
                           ELSE Deny(StatusInternalServerError)
                      ELSE IF s.value THEN Deny(StatusConflict)
                           ELSE Admit

\* the requests to /trigger and the configurations they meet
AuthHeaders ==
    {<<"">>, <<"good">>, <<"Bearer">>, <<"Bearer", "">>,
     <<"Basic", "good">>, <<"Bearer", "", "good">>, <<"Bearer", "good", "x">>}
    \cup {<<s, "good">> : s \in {"Bearer", "bearer", "BEARER"}}
    \cup {<<"Bearer", t>> : t \in {"forged", "keyless", "expired", "anon",
                                   "garbage"}}
Secrets == {"k1", ""}
Rows == {"norows", "dberror", "true", "false", "'false'", "t"}
AuthRequests ==
    [header : AuthHeaders, secret : Secrets, row : Rows, openOk : BOOLEAN]
Versions3 == {"main1", "main2", "server"}

\* one request passes through the gate of the version v
Gate(v, r) ==
    /\ auth.pc = "idle"
    /\ LET g == CASE v = "main1" -> authMiddleware1(r)
                  [] v = "main2" -> authMiddleware2(r)
                  [] OTHER -> authMiddleware(r)
       IN  auth' = [pc |-> IF g.next THEN "next" ELSE "served",
                    version |-> v, req |-> r,
                    status |-> g.status, next |-> g.next, end |-> g.end]
    /\ UNCHANGED <<wsVars, sseVars>>

\* next(w, r) is triggerHandler: it calls broadcast(msg)
triggerHandler ==
    /\ auth.pc = "next"
    /\ BroadcastRLock(1)

\* the loop of that broadcast and its RUnlock
TriggerBroadcast ==
    /\ auth.pc = "next"
    /\ broadcast(1)

\* broadcast has returned: w.WriteHeader(http.StatusOK), w.Write("Triggered");
\* a panic of broadcast leaves triggerHandler before them and nothing is
\* written
TriggerReturn ==
    /\ auth.pc = "next"
    /\ bpc[1] \in {"done", "panicked"}
    /\ auth' = IF bpc[1] = "done"
               THEN [auth EXCEPT !.pc = "served", !.status = StatusOK]
               ELSE [auth EXCEPT !.pc = "served", !.end = "panic"]
    /\ UNCHANGED <<wsVars, sseVars>>

\* the gate serves one request while one listener comes and goes
NextAuth ==
    \/ \E v \in Versions3 : \E r \in AuthRequests : Gate(v, r)
    \/ triggerHandler
    \/ TriggerBroadcast
    \/ TriggerReturn
    \/ \E isFlusher \in BOOLEAN : SseStart(1, isFlusher)
    \/ sseHandler(1)
    \/ SseRecv(1)
    \/ CtxCancel(1)

SpecAuth == Init /\ [][NextAuth]_vars

-----------------------------------------------------------------------------
(* Properties *)

Count(kind) == Cardinality({i \in 1..Len(ops) : ops[i].op = kind})
NumReads == Count("read")
Closes == Count("close")

\* the payload of an outbound frame
EchoPayload(w) == IF w[2] = 126 THEN Drop(w, 4) ELSE Drop(w, 2)

\* the frame the latest readFrame of the driver worked on, if the peer sent it
HasCurFrame == NumReads \in 1..Len(sent)
CurFrame == sent[NumReads]

InvalidHeaders ==
    req.upgrade # "websocket" \/ req.connection # "Upgrade" \/ req.version # "13"

\* C1: a request whose Upgrade is not "websocket", whose Connection is not
\* "Upgrade" or whose Sec-WebSocket-Version is not "13" gets status 400;
\* Hijack is never called and no frame is read or written.
C1_InvalidHeadersRejected ==
    (pc # "Negotiating" /\ InvalidHeaders)
        => /\ resp.status = 400
           /\ pc = "Closed"
           /\ hijackCalls = 0
           /\ ops = <<>>
           /\ received = <<>>
           /\ written = <<>>

C1_Witness ==
    /\ pc = "Closed"
    /\ req.upgrade = "websocket" /\ req.connection = "Upgrade"
    /\ req.version = "8"
    /\ req.isHijacker /\ req.hijackOk
    /\ resp.status = 400

\* C2 (as claimed): a request with valid upgrade, connection and version
\* fields and no Sec-WebSocket-Key gets status 400 and is never hijacked.
C2_MissingNonceRejected ==
    (pc # "Negotiating" /\ ~InvalidHeaders /\ req.key = "")
        => /\ resp.status = 400
           /\ hijackCalls = 0
           /\ pc = "Closed"

\* C3 (as claimed): when the ResponseWriter is no Hijacker or Hijack fails,
\* the status is 500, not 101, and the stream is never handed to the driver.
C3_NoHijackIs500 ==
    (pc # "Negotiating" /\ ~InvalidHeaders /\ req.key # ""
        /\ (~req.isHijacker \/ ~req.hijackOk))
        => /\ resp.status = 500
           /\ pc = "Closed"
           /\ ops = <<>>

\* C4: Hijack succeeds at most once; while the driver is Open the stream is
\* not closed; once the driver has left Open the stream is closed exactly
\* once and the close is the last operation on it.
C4_StreamReleasedOnce ==
    /\ hijackCalls <= 1
    /\ Count("hijack") <= 1
    /\ Open => /\ Count("hijack") = 1
               /\ ops[1].op = "hijack"
               /\ Closes = 0
    /\ (pc = "Closed" /\ ops # <<>>)
        => /\ Count("hijack") = 1
           /\ ops[1].op = "hijack"
           /\ Closes = 1
           /\ ops[Len(ops)].op = "close"

C4_Witness ==
    /\ pc = "Closed"
    /\ lastSend.err = "write failed"
    /\ Len(written) = 1
    /\ Closes = 1

\* C5: reads and writes strictly alternate: frames decoded minus echoes
\* written is 0 before a read and 1 before the echo, and the k-th echo
\* carries the payload of the k-th frame decoded.
C5_StrictAlternation ==
    /\ Len(received) - Len(written) \in {0, 1}
    /\ pc = "readFrame" => Len(received) = Len(written)
    /\ pc = "sendFrame" => Len(received) = Len(written) + 1
    /\ \A k \in 1..Len(written) : EchoPayload(written[k]) = received[k]
    /\ \A i \in 1..(Len(ops) - 1) :
        /\ ops[i].op = "read" => ops[i + 1].op \in {"write", "close"}
        /\ ops[i].op = "write" => ops[i + 1].op \in {"read", "close"}

C5_Witness ==
    /\ Len(written) = 2
    /\ received[1] # received[2]
    /\ pc = "readFrame"

\* C6: a failed readFrame or sendFrame is the last read or write of the
\* connection: the driver is Closed right after it, and every read or write
\* that is followed by another one succeeded.
C6_FailureIsTerminal ==
    /\ \A i \in 1..Len(ops) :
        ops[i].err # "nil" => /\ i = Len(ops) - 1
                              /\ ops[Len(ops)].op = "close"
    /\ (lastRead.err \notin {"none", "nil"} \/ lastSend.err \notin {"none", "nil"})
        => pc = "Closed"
    /\ Open => \A i \in 1..Len(ops) : ops[i].err = "nil"

C6_Witness ==
    /\ pc = "Closed"
    /\ lastRead.err = "ErrUnexpectedEOF"
    /\ Len(written) = 1
    /\ ops[Len(ops) - 1] = [op |-> "read", err |-> "ErrUnexpectedEOF"]

\* C7: every frame written starts with 0x81, has the mask bit clear and
\* carries exactly the unmasked payload of the inbound frame it answers;
\* so does every frame sendFrame produces for a payload of up to 65535 bytes.
C7_OutboundUnmaskedFinalText ==
    /\ \A k \in 1..Len(written) :
        /\ written[k][1] = 129
        /\ written[k][2] < 128
        /\ k <= Len(sent)
        /\ EchoPayload(written[k]) = Payload(sent[k].len)
    /\ (codec.pc # "idle" /\ Len(codec.payload) <= 65535)
        => /\ codec.err = "nil"
           /\ codec.wire[1] = 129
           /\ codec.wire[2] < 128
           /\ EchoPayload(codec.wire) = codec.payload

C7_Witness ==
    \E k \in 1..Len(written) : sent[k].mask = 1 /\ sent[k].len = 126

BadType(f) == f.fin = 0 \/ f.opcode # 1

\* the outcome C8 and C9 name for a frame that is refused: the frame is not
\* echoed, the driver is Closed and the stream was closed once
Refused ==
    /\ pc = "Closed"
    /\ Len(received) = NumReads - 1
    /\ Len(written) = NumReads - 1
    /\ Closes = 1

\* C8 (as claimed): a whole inbound frame with FIN=0 or an opcode other than
\* text fails with the unsupported-frame-type error, whatever its mask flag,
\* length and payload.  (Stated for requests that carry a nonce.)
C8_BadTypeAnyLength ==
    (req.key # "" /\ HasCurFrame /\ CurFrame.cut = 0 /\ BadType(CurFrame))
        => (lastRead.err = "unsupported frame type" /\ Refused)

\* C8 (amended): a whole inbound frame with FIN=0 or an opcode other than
\* text whose 7-bit length is not 127 fails with the unsupported-frame-type
\* error; with 7-bit length 127 it fails with the unsupported-length error.
\* Either way it is not echoed and the stream is closed once.
C8_BadTypeRefused ==
    (HasCurFrame /\ CurFrame.cut = 0 /\ BadType(CurFrame))
        => /\ Refused
           /\ CurFrame.form # "ext64"
                => lastRead.err = "unsupported frame type"
           /\ CurFrame.form = "ext64"
                => lastRead.err = "large payloads not supported"

C8_Witness ==
    /\ HasCurFrame
    /\ CurFrame.cut = 0
    /\ CurFrame.fin = 0 /\ CurFrame.opcode = 1 /\ CurFrame.mask = 1
    /\ CurFrame.len = 126
    /\ NumReads = 2
    /\ lastRead.err = "unsupported frame type"

\* C9: a frame with 7-bit length 127 fails with the unsupported-length
\* error after its 2 header bytes and no byte more; the driver is Closed and
\* the stream closed.  sendFrame on more than 65535 bytes fails with the
\* unsupported-length error and writes nothing.
C9_UnsupportedLength ==
    /\ (HasCurFrame /\ CurFrame.form = "ext64" /\ CurFrame.cut # 1)
        => /\ lastRead.err = "large payloads not supported"
           /\ lastRead.n = 2
           /\ Refused
    /\ (codec.pc # "idle" /\ Len(codec.payload) > 65535)
        => /\ codec.err = "payload too large"
           /\ codec.wire = <<>>

C9_Witness ==
    /\ HasCurFrame
    /\ CurFrame.form = "ext64" /\ CurFrame.cut = 0 /\ CurFrame.fin = 1
    /\ lastRead.err = "large payloads not supported"
    /\ Len(inbuf) > 0

\* C10 (as claimed): an end of stream met by readFrame is passed over in
\* silence iff it comes before any byte of the frame was read; at any later
\* point of the frame it is printed as a read error.  (Stated for requests
\* that carry a nonce.)
C10_SilentOnlyAtFrameStart ==
    (req.key # "" /\ lastRead.err \in {"EOF", "ErrUnexpectedEOF"})
        => (lastRead.n = 0 <=> printed \in Seq({"Received"}))

-----------------------------------------------------------------------------
(* Properties of the frame layout *)

\* the k-th frame the peer sent, and its bytes on the wire
SentFrame(k) == [fin |-> sent[k].fin, opcode |-> sent[k].opcode,
                 mask |-> sent[k].mask, form |-> sent[k].form,
                 len |-> sent[k].len]
SentWire(k) == Wires[SentFrame(k)]

\* bytes of a frame the decoder reads: header, 16-bit length, key, payload
FrameSize(f) ==
    2 + (IF f.form = "ext16" THEN 2 ELSE 0) + (IF f.mask = 1 THEN 4 ELSE 0)
      + f.len

\* the bytes w are the frame of payload p with the length encoded as claimed
EncodesLength(w, p) ==
    LET n == Len(p)
    IN  /\ n <= 125 => /\ Len(w) = n + 2
                       /\ w[2] = n
                       /\ Drop(w, 2) = p
        /\ (n >= 126 /\ n <= 65535)
            => /\ Len(w) = n + 4
               /\ w[2] = 126
               /\ w[3] = n \div 256
               /\ w[4] = n % 256
               /\ Drop(w, 4) = p

\* C11: sendFrame writes a length of 0..125 in the second byte with the
\* payload at offset 2, and a length of 126..65535 as 126 followed by the
\* length in 2 bytes, high byte first, with the payload at offset 4.
C11_LengthEncoding ==
    /\ (codec.pc # "idle" /\ Len(codec.payload) <= 65535)
        => (codec.err = "nil" /\ EncodesLength(codec.wire, codec.payload))
    /\ \A k \in 1..Len(written) : EncodesLength(written[k], received[k])

C11_Witness ==
    /\ codec.pc = "sent"
    /\ Len(codec.payload) = 126
    /\ codec.wire[2] = 126 /\ codec.wire[3] = 0 /\ codec.wire[4] = 126

\* C12: readFrame on the bytes sendFrame wrote for a payload succeeds,
\* returns that payload and consumes exactly those bytes.
C12_RoundTrip ==
    codec.pc \in {"read", "echoed"}
        => /\ codec.back.err = "nil"
           /\ codec.back.msg = codec.payload
           /\ codec.back.n = Len(codec.wire)

C12_Witness ==
    /\ codec.pc = "read"
    /\ Len(codec.payload) = 126
    /\ codec.back.msg = codec.payload
    /\ codec.back.n = 130

\* the payload of each length the peer uses, and what unmasking gives for
\* that payload masked by the client
Payloads == [n \in {f.len : f \in Frames} |-> Payload(n)]
Remasked == [n \in {f.len : f \in Frames} |-> Unmask(Mask(Payload(n), Key), Key)]

\* C13: the payload readFrame returns for a masked frame is, byte by byte,
\* the wire byte xor key[i mod 4]; for an unmasked frame it is the wire
\* bytes; unmasking what the client masked gives the client's payload back.
C13_Unmasking ==
    \A k \in 1..Len(received) :
        LET f == sent[k]
            w == SentWire(k)
            hd == Len(w) - f.len
        IN  /\ Len(received[k]) = f.len
            /\ f.mask = 1 =>
                \A i \in 1..f.len :
                    received[k][i] = Xor(w[hd + i], w[hd - 4 + ((i - 1) % 4) + 1])
            /\ f.mask = 0 => received[k] = SubSeq(w, hd + 1, Len(w))
            /\ Remasked[f.len] = Payloads[f.len]
            /\ received[k] = Payloads[f.len]

C13_Witness ==
    /\ Len(received) = 1
    /\ sent[1].mask = 1 /\ sent[1].len = 125 /\ sent[1].form = "short"
    /\ received[1] = Payload(125)
    /\ received[1] # SubSeq(SentWire(1), 7, 131)

RECURSIVE Pending(_)
\* the bytes of the frames from the k-th on, as the peer put them on the stream
Pending(k) ==
    IF k > Len(sent) THEN <<>>
    ELSE (IF sent[k].cut = 0 THEN SentWire(k)
          ELSE SubSeq(SentWire(k), 1, sent[k].cut)) \o Pending(k + 1)

\* C14: a successful readFrame consumes exactly the bytes of one frame
\* (2, plus 2 for the 16-bit length, plus 4 for the key, plus the payload),
\* the k-th message decoded is the payload of the k-th frame whatever came
\* before it, and after a refused frame nothing more is read.
C14_NoStateBetweenFrames ==
    /\ lastRead.err = "nil"
        => (HasCurFrame /\ lastRead.n = FrameSize(CurFrame))
    /\ Open => inbuf = Pending(NumReads + 1)
    /\ \A k \in 1..Len(received) : received[k] = Payloads[sent[k].len]
    /\ (HasCurFrame /\ CurFrame.cut = 0 /\ ~Accepted(CurFrame))
        => /\ pc = "Closed"
           /\ Len(received) = NumReads - 1
           /\ inbuf = Drop(SentWire(NumReads), lastRead.n)

C14_Witness ==
    /\ NumReads = 2
    /\ lastRead.err = "nil"
    /\ sent[1].mask = 1 /\ sent[1].form = "ext16" /\ sent[1].len = 126
    /\ sent[2].mask = 0 /\ sent[2].form = "short" /\ sent[2].len = MaxLen
    /\ received = <<Payload(126), Payload(MaxLen)>>

\* C19: every payload readFrame returns has at most 65535 bytes, so the
\* echo never fails with the payload-too-large error: a failed echo is a
\* failed write.
C19_EchoNeverTooLarge ==
    /\ \A k \in 1..Len(received) : Len(received[k]) <= 65535
    /\ lastSend.err \in {"none", "nil", "write failed"}
    /\ (codec.pc \in {"read", "echoed"} /\ codec.back.err = "nil")
        => Len(codec.back.msg) <= 65535
    /\ codec.pc = "echoed" => codec.echo = "nil"

C19_Witness ==
    /\ pc = "Closed"
    /\ lastSend.err = "write failed"
    /\ Len(msg) = 126
    /\ sent[1].mask = 1

\* C20 (as claimed): for a frame with FIN=0 or an opcode other than text,
\* readFrame consumes the extended length, the key and the whole payload
\* before it refuses the type, and a stream that ends before these bytes
\* arrived is reported as an end of stream.  (Stated for requests that
\* carry a nonce.)
C20_TypeCheckedLastAnyLength ==
    (req.key # "" /\ HasCurFrame /\ BadType(CurFrame))
        => /\ CurFrame.cut = 0
                => /\ lastRead.err = "unsupported frame type"
                   /\ lastRead.n = Len(SentWire(NumReads))
           /\ CurFrame.cut # 0
                => lastRead.err \in {"EOF", "ErrUnexpectedEOF"}

\* C20 (amended): the same for the frames whose 7-bit length is not 127;
\* with 7-bit length 127 readFrame fails with the unsupported-length error
\* as soon as the 2 header bytes are read.
C20_TypeCheckedLast ==
    (HasCurFrame /\ BadType(CurFrame))
        => /\ (CurFrame.form # "ext64" /\ CurFrame.cut = 0)
                => /\ lastRead.err = "unsupported frame type"
                   /\ lastRead.n = FrameSize(CurFrame)
           /\ (CurFrame.form # "ext64" /\ CurFrame.cut # 0)
                => /\ lastRead.err \in {"EOF", "ErrUnexpectedEOF"}
                   /\ lastRead.n = CurFrame.cut
           /\ (CurFrame.form = "ext64" /\ CurFrame.cut # 1)
                => /\ lastRead.err = "large payloads not supported"
                   /\ lastRead.n = 2

C20_Witness ==
    /\ HasCurFrame
    /\ CurFrame.fin = 0 /\ CurFrame.mask = 1 /\ CurFrame.form = "ext16"
    /\ CurFrame.len = 126
    /\ CurFrame.cut = 8
    /\ lastRead.err = "EOF"
    /\ lastRead.step = "payload"

-----------------------------------------------------------------------------
(* Properties of the event stream *)

\* the listeners the running range loop of b has visited
Attempted(b) == {o[1] : o \in outcome[b]}

\* the calls of sseHandler whose channel is a key of clients: from the
\* insertion to the delete of the deferred function
Registered(h) == hpc[h] \in {"init", "select", "deferLock", "delete"}

C15_Attempts ==
    /\ \A h \in Listeners : Len(chanq[h]) <= ChanCap
    /\ \A b \in Broadcasts :
        bpc[b] = "range"
            => /\ Attempted(b) \cup todo[b] = clients
               /\ Attempted(b) \cap todo[b] = {}
               /\ Cardinality(outcome[b]) = Cardinality(Attempted(b))
               /\ \A o \in outcome[b] :
                    o[3] = IF o[2] < ChanCap THEN "delivered" ELSE "dropped"
               /\ ENABLED broadcast(b)

\* C15: broadcast never blocks on a listener.  While its loop runs it can
\* always take its next step; every registered listener gets exactly one
\* send attempt, which delivers when the buffer has room and drops when it is
\* full, whatever happened at the other listeners; and a broadcast that has
\* entered its loop ends, even if no listener ever drains its channel.
C15_BroadcastNeverBlocks ==
    /\ []C15_Attempts
    /\ \A b \in Broadcasts : (bpc[b] = "range") ~> (bpc[b] = "done")

\* a loop that is over has dropped the message for a full listener and
\* delivered it to another one
C15_Witness ==
    \E b \in Broadcasts :
        /\ bpc[b] = "range"
        /\ todo[b] = {}
        /\ \E o1, o2 \in outcome[b] : o1[3] = "dropped" /\ o2[3] = "delivered"

\* C17: under any interleaving of broadcasts with listeners that register and
\* leave, no send happens on a closed channel: a closed channel is not in the
\* registry, the write lock excludes the read locks, and a running loop holds
\* the read lock and visits registered channels only.
C17_NoSendOnClosed ==
    /\ ~sentOnClosed
    /\ \A h \in Listeners : closed[h] > 0 => h \notin clients
    /\ writer # 0 => readers = {}
    /\ \A b \in Broadcasts :
        bpc[b] = "range"
            => /\ b \in readers
               /\ todo[b] \subseteq clients
               /\ Attempted(b) \subseteq clients
               /\ \A c \in todo[b] : closed[c] = 0

\* two broadcasts are in their loops, one of them about to send to a listener
\* whose handler has left its select and waits for the write lock
C17_Witness ==
    \E b1, b2 \in Broadcasts : \E h \in Listeners :
        /\ b1 # b2
        /\ bpc[b1] = "range" /\ bpc[b2] = "range"
        /\ h \in todo[b1]
        /\ hpc[h] = "deferLock"

C18_Registry ==
    /\ clients = {h \in Listeners : Registered(h)}
    /\ \A h \in Listeners :
        /\ regs[h] <= 1
        /\ hout[h] # <<>> => regs[h] = 1
        /\ closed[h] <= 1
        /\ closed[h] = 1 <=> hpc[h] = "returned"
        /\ hpc[h] = "returned" => h \notin clients

\* C18: the registry holds exactly the channels of the handlers between their
\* registration and the delete of their deferred function; a handler
\* registers once, before it writes; a handler whose context is done returns,
\* and then its channel is out of the registry and closed exactly once.
C18_RegistryTracksHandlers ==
    /\ []C18_Registry
    /\ \A h \in Listeners : ctxDone[h] ~> (hpc[h] = "returned")

\* one handler has returned after it streamed a broadcast message, another
\* one is still registered
C18_Witness ==
    \E h1, h2 \in Listeners :
        /\ hpc[h1] = "returned"
        /\ Len(hout[h1]) >= 2
        /\ hpc[h2] = "select"
        /\ clients = {h2}

-----------------------------------------------------------------------------
(* Properties of the gate *)

\* the Authorization header is "bearer <token>": two fields, the first one
\* the word bearer in any letter case
BearerForm(h) == Len(h) = 2 /\ h[1] \in {"bearer", "Bearer", "BEARER"}

\* the token is a well-formed JWT signed with the configured secret and not
\* expired
TokenValid(r) ==
    LET t == Jwt(r.header[2])
    IN  t.wellFormed /\ t.key = r.secret /\ ~t.expired

\* the store has the row of the user and its flag is false
RowFlagFalse(r) == r.row \in {"false", "f", "'false'"}

Admissible(r) == BearerForm(r.header) /\ TokenValid(r) /\ RowFlagFalse(r)

\* a message of a broadcast has reached a listener: it is in the channel, or
\* the handler has written more than the one event it writes by itself
Delivered ==
    \E h \in Listeners :
        \/ chanq[h] # <<>>
        \/ Len(hout[h]) > 1

\* C16: the gate calls the wrapped handler, and so a broadcast runs, only for
\* a request whose Authorization header is "bearer <token>", whose token is
\* valid under the configured secret and whose user row exists with a flag
\* that is false; for any other request the handler is not called, no
\* broadcast starts and no listener gets a message.
C16_GateAdmitsOnlyVerified ==
    auth.pc # "idle"
        => /\ (auth.next \/ bpc[1] # "idle" \/ Delivered)
                => Admissible(auth.req)
           /\ ~Admissible(auth.req)
                => /\ auth.pc = "served"
                   /\ auth.end # "next"

\* the request "BEARER good" was admitted by the second version of
\* src/main.go on a row whose flag is false, and the broadcast it triggered
\* reached the listener
C16_Witness ==
    /\ auth.pc = "served"
    /\ auth.version = "main2"
    /\ auth.req.header = <<"BEARER", "good">>
    /\ auth.req.secret = "k1"
    /\ auth.req.row = "false"
    /\ auth.end = "next"
    /\ auth.status = StatusOK
    /\ Delivered

====
